---- MODULE Spec2Model ----
(***************************************************************************)
(* B+ tree visualizer: the tree builder (src/tree.py, Tree.load) and the   *)
(* layout engine (src/draw.py, TreeVisualizer.analyze_tree).               *)
(*                                                                         *)
(* Node objects live in `heap`, keyed by the number their name is          *)
(* formatted from (settings['node-name'].format(enumi), tree.py:68); the   *)
(* format is taken to be injective, so the number stands for the name and  *)
(* for the object.  Tree.load is followed statement by statement: `pc` is  *)
(* its position, and the next element of the argument is drawn when the    *)
(* loop that reads it advances; `tree_array` records what was read so far. *)
(* Horizontal coordinates are exact rationals <<numerator, denominator>>.  *)
(***************************************************************************)
EXTENDS Integers, Sequences, FiniteSets, TLC

VARIABLES
    nodes,       \* Tree.nodes: sequence of levels, each a sequence of node names
    enumi,       \* Tree.enumi: the name counter
    heap,        \* the Node objects: name -> [data_arr, parent, children]
    pc,          \* "idle" | "level" (tree.py:63) | "node" (tree.py:67) | "done"
    append,      \* the append argument of the running / last load call
    tree_array,  \* the part of load's argument read so far (all of it on return)
    i,           \* load's local i (0 outside the inner loop, where it is dead)
    new_level,   \* load's local new_level (empty outside the inner loop)
    raised,      \* exception that ended the last call: "none" | "IndexError"
    settings,    \* the settings the TreeVisualizer was constructed with
    dimensions,  \* TreeVisualizer.dimensions: <<>> for None, else <<w, h>>
    positions    \* TreeVisualizer.positions: name -> [x, y]; <<>> for None / {}

vars == <<nodes, enumi, heap, pc, append, tree_array, i, new_level, raised,
          settings, dimensions, positions>>

-----------------------------------------------------------------------------
\* Bounds of the model.
MaxNodes == 5     \* names handed out since the last reset (enumi)
MaxLevels == 2    \* levels in one tree_array argument

\* The key-arrays an input may hold: no key (full with one child) or one key
\* (full with two).  The builder reads only their length; a [value, color]
\* pair counts as one key.
DataArrs == {<<>>, <<"k">>}

\* parent of a parentless node
None == -1

-----------------------------------------------------------------------------
\* Node

NewNode(data_arr, parent) ==
    [data_arr |-> data_arr, parent |-> parent, children |-> <<>>]

\* faulty variant: the child is registered twice
_add_childTwice(h, p, child) == [h EXCEPT ![p].children = Append(Append(@, child), child)]

\* Node._add_child: append, no checks
_add_child(h, p, child) == [h EXCEPT ![p].children = Append(@, child)]

\* faulty variant: > for >=
is_fullOffByOne(h, n) == Len(h[n].children) > Len(h[n].data_arr) + 1
\* Node.is_full
is_full(h, n) == Len(h[n].children) >= Len(h[n].data_arr) + 1

\* Node.__init__: register with the parent, then start with no children
CreateNode(h, name, data_arr, parent) ==
    LET h1 == IF parent # None THEN _add_child(h, parent, name) ELSE h
    IN  h1 @@ (name :> NewNode(data_arr, parent))

-----------------------------------------------------------------------------
\* Tree.load

Last(s) == s[Len(s)]
Pop(s) == SubSeq(s, 1, Len(s) - 1)

\* while i < len(self.nodes[-1]) and self.nodes[-1][i].is_full(): i += 1
RECURSIVE Scan(_, _, _)
Scan(h, level, c) ==
    IF c < Len(level) /\ is_full(h, level[c + 1])
    THEN Scan(h, level, c + 1)
    ELSE c

\* faulty variant: the empty last level is kept
PopNever(ns) == ns

\* if len(self.nodes[-1]) == 0: self.nodes.pop(-1)
PopIfEmpty(ns) == IF Len(Last(ns)) = 0 THEN Pop(ns) ELSE ns

\* load(tree_array, append=app): lines 59-61, up to the outer loop's header
Load(app) ==
    /\ pc = "idle"
    /\ IF app
       THEN UNCHANGED <<nodes, enumi, heap>>
       ELSE /\ nodes' = << <<>> >>
            /\ enumi' = 0
            /\ heap' = <<>>
    /\ append' = app
    /\ tree_array' = <<>>
    /\ raised' = "none"
    /\ pc' = "level"
    /\ UNCHANGED <<i, new_level, settings, dimensions, positions>>

\* for level in tree_array: i = 0; new_level = []
ForLevel ==
    /\ pc = "level"
    /\ Len(tree_array) < MaxLevels
    /\ tree_array' = Append(tree_array, <<>>)
    /\ i' = 0
    /\ new_level' = <<>>
    /\ pc' = "node"
    /\ UNCHANGED <<nodes, enumi, heap, append, raised, settings, dimensions, positions>>

\* for data_arr in level: lines 68-73.  self.nodes[-1] of an empty list
\* (append=True on a tree with no levels) raises IndexError after enumi += 1.
ForDataArr(data_arr) ==
    /\ pc = "node"
    /\ enumi < MaxNodes
    /\ tree_array' = [tree_array EXCEPT ![Len(tree_array)] = Append(@, data_arr)]
    /\ enumi' = enumi + 1
    /\ IF Len(nodes) = 0
       THEN /\ raised' = "IndexError"
            /\ pc' = "idle"
            /\ i' = 0
            /\ new_level' = <<>>
            /\ UNCHANGED heap
       ELSE LET c == Scan(heap, Last(nodes), i)
                parent == IF c < Len(Last(nodes)) THEN Last(nodes)[c + 1] ELSE None
            IN  /\ i' = c
                /\ heap' = CreateNode(heap, enumi, data_arr, parent)
                /\ new_level' = Append(new_level, enumi)
                /\ UNCHANGED <<raised, pc>>
    /\ UNCHANGED <<nodes, append, settings, dimensions, positions>>

\* end of the inner loop: lines 75-77
EndLevel ==
    /\ pc = "node"
    /\ IF Len(nodes) = 0
       THEN /\ raised' = "IndexError"
            /\ pc' = "idle"
            /\ UNCHANGED nodes
       ELSE /\ nodes' = Append(PopIfEmpty(nodes), new_level)
            /\ pc' = "level"
            /\ UNCHANGED raised
    /\ i' = 0
    /\ new_level' = <<>>
    /\ UNCHANGED <<enumi, heap, append, tree_array, settings, dimensions, positions>>

\* end of the outer loop: lines 79-80, and return
Return ==
    /\ pc = "level"
    /\ IF Len(nodes) = 0
       THEN /\ raised' = "IndexError"
            /\ UNCHANGED nodes
       ELSE /\ nodes' = PopIfEmpty(nodes)
            /\ UNCHANGED raised
    /\ pc' = "idle"
    /\ UNCHANGED <<enumi, heap, append, tree_array, i, new_level, settings,
                   dimensions, positions>>

\* Tree.nlevels, Tree.nnodes, Tree.nleaves, Tree.root
RECURSIVE SumLen(_)
SumLen(s) == IF Len(s) = 0 THEN 0 ELSE Len(s[1]) + SumLen(Tail(s))

nlevels == Len(nodes)
nnodes == SumLen(nodes)
nleaves == IF Len(nodes) = 0 THEN 0 ELSE Len(Last(nodes))
\* faulty variant: nodes[0][-1] for nodes[0][0]
rootLast == IF Len(nodes) = 0 THEN None ELSE Last(nodes[1])
root == IF Len(nodes) = 0 THEN None ELSE nodes[1][1]

-----------------------------------------------------------------------------
\* Layout (draw.py).  The settings file is not part of the sources; these are
\* the values a run may be configured with (keys of the settings object).
SettingsSet ==
    { [d |-> 2, block_width |-> 1, block_height |-> 1, margin |-> 0,
       horizontal_separation |-> 0, vertical_separation |-> 0],
      [d |-> 1, block_width |-> 3, block_height |-> 2, margin |-> 4,
       horizontal_separation |-> 2, vertical_separation |-> 1] }

\* TreeVisualizer.__init__: node_size = bl_size * Vec2(n, 3), margin, separation
node_size_x(s) == s.block_width * s.d
node_size_y(s) == s.block_height * 3
margin(s) == s.margin
separation_x(s) == s.horizontal_separation
separation_y(s) == s.vertical_separation

\* Exact arithmetic on the horizontal coordinate: <<numerator, denominator>>
\* in lowest terms, denominator > 0, numerator >= 0.
RECURSIVE GCD(_, _)
GCD(a, b) == IF b = 0 THEN a ELSE GCD(b, a % b)

Rat(n, d) == LET g == GCD(n, d) IN <<n \div g, d \div g>>
RAdd(a, b) == Rat(a[1] * b[2] + b[1] * a[2], a[2] * b[2])
RDiv(a, k) == Rat(a[1], a[2] * k)

\* sum([self.positions[child.name].x for child in node.children])
RECURSIVE SumX(_, _)
SumX(pos, children) ==
    IF Len(children) = 0 THEN Rat(0, 1)
    ELSE RAdd(pos[children[1]].x, SumX(pos, Tail(children)))

\* faulty variants: floor division (//), and the sum left undivided
MeanXFloor(pos, children) ==
    LET t == SumX(pos, children) IN Rat(t[1] \div (t[2] * Len(children)), 1)
MeanXNoDivide(pos, children) == SumX(pos, children)

\* sum(...) / len(node.children)
MeanX(pos, children) == RDiv(SumX(pos, children), Len(children))

\* count = Vec2(nleaves(), nlevels()); dimensions = margin * 2 + node_size * count
\*                                      + separation * (count + Vec2(-1, -1))
Dimensions(s) ==
    << margin(s) * 2 + node_size_x(s) * nleaves + separation_x(s) * (nleaves - 1),
       margin(s) * 2 + node_size_y(s) * nlevels + separation_y(s) * (nlevels - 1) >>

\* faulty variant: the separation is left out of the leaf step
LeafPosNoSeparation(s, k, j) ==
    [x |-> Rat(margin(s) + node_size_x(s) * k, 1),
     y |-> margin(s) + (node_size_y(s) + separation_y(s)) * j]

\* leaf.name: self.margin + (self.node_size + self.separation) * Vec2(i, j)
LeafPos(s, k, j) ==
    [x |-> Rat(margin(s) + (node_size_x(s) + separation_x(s)) * k, 1),
     y |-> margin(s) + (node_size_y(s) + separation_y(s)) * j]

\* the dict comprehension over enumerate(self.tree.nodes[-1]); k is 0-based
RECURSIVE PlaceLeaves(_, _, _, _, _)
PlaceLeaves(s, level, k, j, pos) ==
    IF k >= Len(level) THEN pos
    ELSE PlaceLeaves(s, level, k + 1, j, (level[k + 1] :> LeafPos(s, k, j)) @@ pos)

\* faulty variant: the childless step leaves out the separation
ChildlessXNoSeparation(s, x) == RAdd(x, Rat(node_size_x(s), 1))

\* if len(node.children) == 0: pos.x += node_size.x + separation.x
ChildlessX(s, x) == RAdd(x, Rat(node_size_x(s) + separation_x(s), 1))

\* the body of `for node in level`: new pos.x from the running pos.x
NodeX(s, h, pos, n, x) ==
    IF Len(h[n].children) = 0
    THEN ChildlessX(s, x)
    ELSE MeanX(pos, h[n].children)

\* for node in level: ...; self.positions[node.name] = pos.clone()
RECURSIVE PlaceLevel(_, _, _, _, _, _, _)
PlaceLevel(s, h, level, k, x, y, pos) ==
    IF k >= Len(level) THEN pos
    ELSE LET n == level[k + 1]
             nx == NodeX(s, h, pos, n, x)
         IN  PlaceLevel(s, h, level, k + 1, nx, y, (n :> [x |-> nx, y |-> y]) @@ pos)

\* for level in reversed(self.tree.nodes[:-1]): j -= 1; pos = margin + ... * Vec2(0, j)
\* l is the 1-based index of the level being placed, so j = l - 1
RECURSIVE PlaceLevels(_, _, _, _, _)
PlaceLevels(s, h, ns, l, pos) ==
    IF l < 1 THEN pos
    ELSE PlaceLevels(s, h, ns, l - 1,
             PlaceLevel(s, h, ns[l], 0, Rat(margin(s), 1),
                        margin(s) + (node_size_y(s) + separation_y(s)) * (l - 1), pos))

\* TreeVisualizer(tree) followed by analyze_tree (draw.py:236, 216).  On a tree
\* with no levels self.tree.nodes[-1] raises IndexError after dimensions is set.
Visualize(s) ==
    /\ pc = "idle"
    /\ settings' = s
    /\ dimensions' = Dimensions(s)
    /\ IF Len(nodes) = 0
       THEN /\ raised' = "IndexError"
            /\ UNCHANGED positions
       ELSE /\ raised' = "none"
            /\ positions' = PlaceLevels(s, heap, nodes, nlevels - 1,
                                PlaceLeaves(s, Last(nodes), 0, nlevels - 1, <<>>))
    /\ pc' = "done"
    /\ UNCHANGED <<nodes, enumi, heap, append, tree_array, i, new_level>>

-----------------------------------------------------------------------------
Init ==
    /\ nodes = <<>>
    /\ enumi = 0
    /\ heap = <<>>
    /\ pc = "idle"
    /\ append = FALSE
    /\ tree_array = <<>>
    /\ i = 0
    /\ new_level = <<>>
    /\ raised = "none"
    /\ settings = <<>>
    /\ dimensions = <<>>
    /\ positions = <<>>

Next ==
    \/ \E app \in BOOLEAN : Load(app)
    \/ ForLevel
    \/ \E data_arr \in DataArrs : ForDataArr(data_arr)
    \/ EndLevel
    \/ Return
    \/ \E s \in SettingsSet : Visualize(s)

Spec == Init /\ [][Next]_vars

-----------------------------------------------------------------------------
\* Vocabulary of the properties

\* no call of load is running: load has returned (or was never called)
Built == pc \in {"idle", "done"}
\* analyze_tree ran to its end
Analyzed == pc = "done" /\ raised = "none"

Count(s, e) == Cardinality({k \in 1..Len(s) : s[k] = e})
Elems(s) == {s[k] : k \in 1..Len(s)}
NonEmpty(s) == Len(s) > 0
Min(S) == CHOOSE m \in S : \A o \in S : m <= o
AllFull(level) == \A k \in 1..Len(level) : is_full(heap, level[k])
AllChildless(level) == \A k \in 1..Len(level) : Len(heap[level[k]].children) = 0
Step == node_size_x(settings) + separation_x(settings)

\* the level of the built tree a new node's parent is looked for in: the last
\* level with nodes (an empty last level is dropped from the built tree)
PrevLevel(ns) ==
    IF Len(ns) = 0 THEN <<>>
    ELSE IF Len(Last(ns)) > 0 THEN Last(ns)
    ELSE IF Len(ns) >= 2 THEN ns[Len(ns) - 1]
    ELSE <<>>

\* the key-arrays of the built tree, level by level
LevelKeys ==
    [l \in 1..Len(nodes) |-> [k \in 1..Len(nodes[l]) |-> heap[nodes[l][k]].data_arr]]

-----------------------------------------------------------------------------
\* C1: whenever load creates a node while the previous level of the built tree
\* holds a node that is not full, the new node's parent is the leftmost such
\* node, and the cursor i never moves left within a level.
C1_ParentIsLeftmostNotFull ==
    [][ (pc = "node" /\ pc' = "node" /\ enumi' = enumi + 1) =>
          LET prev == PrevLevel(nodes)
              open == {k \in 1..Len(prev) : ~is_full(heap, prev[k])}
          IN  /\ i' >= i
              /\ open # {} => heap'[enumi].parent = prev[Min(open)] ]_vars

\* C2: after load returns every node outside level 0 has a parent and appears
\* in that parent's children exactly once.
C2_EveryNodeHasParent ==
    Built =>
      \A l \in 2..Len(nodes) : \A k \in 1..Len(nodes[l]) :
        LET n == nodes[l][k]
        IN  /\ heap[n].parent # None
            /\ Count(heap[heap[n].parent].children, n) = 1

\* C2 (amended): after load returns every node outside level 0 either has one
\* parent, a node of the level directly above in whose children it appears at
\* exactly one index, or has no parent; the latter only when every node of the
\* level above is full or no node of the level above has a child at all.
C2_ParentOnceOrNoRoom ==
    Built =>
      \A l \in 1..Len(nodes) : \A k \in 1..Len(nodes[l]) :
        LET n == nodes[l][k]
            p == heap[n].parent
        IN  IF p = None
            THEN l = 1 \/ AllFull(nodes[l - 1]) \/ AllChildless(nodes[l - 1])
            ELSE /\ l >= 2
                 /\ p \in Elems(nodes[l - 1])
                 /\ Count(heap[p].children, n) = 1
                 /\ \A q \in DOMAIN heap : q # p => Count(heap[q].children, n) = 0

C2_Witness ==
    /\ pc = "idle"
    /\ Len(nodes) >= 2
    /\ \E k \in 1..Len(nodes[2]) : heap[nodes[2][k]].parent # None
    /\ \E k \in 1..Len(nodes[2]) : heap[nodes[2][k]].parent = None

\* C3: after load(tree_array) with append=False level i of the tree holds one
\* node per key-array of tree_array[i], in order, with those keys; nlevels()
\* is len(tree_array) and nnodes() the number of key-arrays.
C3_LevelsAreInputLevels ==
    (Built /\ ~append) =>
      /\ LevelKeys = tree_array
      /\ nlevels = Len(tree_array)
      /\ nnodes = SumLen(tree_array)

\* C3 (amended): after load(tree_array) with append=False the levels of the
\* tree are the non-empty levels of tree_array, in order, one node per
\* key-array with those keys; nlevels() is the number of non-empty levels of
\* tree_array and nnodes() the number of key-arrays.
C3_LevelsAreNonEmptyInputLevels ==
    (Built /\ ~append) =>
      /\ LevelKeys = SelectSeq(tree_array, NonEmpty)
      /\ nlevels = Len(SelectSeq(tree_array, NonEmpty))
      /\ nnodes = SumLen(tree_array)

C3_Witness ==
    /\ pc = "idle" /\ ~append
    /\ Len(tree_array) = 2
    /\ Len(tree_array[1]) = 0
    /\ Len(tree_array[2]) >= 2
    /\ tree_array[2][1] # tree_array[2][2]

\* C4: after load returns level 0 holds at most one node, and root() is that
\* node, or None when the tree has no levels.
C4_AtMostOneRoot ==
    Built =>
      \/ nlevels = 0 /\ root = None
      \/ nlevels > 0 /\ Len(nodes[1]) = 1 /\ root = nodes[1][1]

\* C4 (amended): after load(tree_array) with append=False level 0 holds one
\* parentless node per key-array of the first non-empty level of tree_array,
\* which may be several; root() is the first of them, the node created first,
\* or None when the tree has no levels.
C4_RootIsFirstOfLevel0 ==
    (Built /\ ~append) =>
      LET ne == SelectSeq(tree_array, NonEmpty)
      IN  IF Len(ne) = 0
          THEN nlevels = 0 /\ root = None
          ELSE /\ nlevels > 0
               /\ Len(nodes[1]) = Len(ne[1])
               /\ \A k \in 1..Len(nodes[1]) : heap[nodes[1][k]].parent = None
               /\ root = 0
               /\ heap[root].data_arr = ne[1][1]

C4_Witness ==
    /\ pc = "idle" /\ ~append
    /\ nlevels = 2
    /\ Len(nodes[1]) = 2
    /\ heap[nodes[1][1]].data_arr # heap[nodes[1][2]].data_arr

\* C5: load([]) gives nlevels() = 0 and nleaves() = 0, and analyze_tree on that
\* tree ends without an exception, with zero-sized dimensions and an empty
\* position mapping.
C5_EmptyTreeLayout ==
    (pc = "done" /\ ~append /\ tree_array = <<>>) =>
      /\ nlevels = 0
      /\ nleaves = 0
      /\ raised = "none"
      /\ dimensions = <<0, 0>>
      /\ positions = <<>>

\* the x coordinates of a node's children, and their sum over the common
\* denominator D (the product of the denominators)
RECURSIVE ProdDen(_, _)
ProdDen(pos, ch) ==
    IF Len(ch) = 0 THEN 1 ELSE pos[ch[1]].x[2] * ProdDen(pos, Tail(ch))

RECURSIVE ScaledSum(_, _, _)
ScaledSum(pos, ch, D) ==
    IF Len(ch) = 0 THEN 0
    ELSE pos[ch[1]].x[1] * (D \div pos[ch[1]].x[2]) + ScaledSum(pos, Tail(ch), D)

\* C6: after analyze_tree on a non-empty tree every node with at least one
\* child has for x the arithmetic mean of its children's x.
C6_ParentAtMeanOfChildren ==
    Analyzed =>
      \A n \in DOMAIN heap :
        LET ch == heap[n].children
            D == ProdDen(positions, ch)
        IN  Len(ch) > 0 =>
              /\ n \in DOMAIN positions
              /\ positions[n].x[1] * Len(ch) * D
                   = positions[n].x[2] * ScaledSum(positions, ch, D)

C6_Witness ==
    /\ Analyzed
    /\ nlevels = 3
    /\ Len(heap[nodes[1][1]].children) = 2
    /\ positions[nodes[1][1]].x[2] > 1
    /\ settings.horizontal_separation > 0

\* C7: after analyze_tree on a non-empty tree all nodes of the last level have
\* the same y, the first is at x = margin and each next one is exactly
\* nodeWidth + horizontalSeparation to the right of the one before it.
C7_LeavesEvenlySpaced ==
    Analyzed =>
      LET leaves == Last(nodes)
      IN  /\ positions[leaves[1]].x = <<margin(settings), 1>>
          /\ \A k \in 1..Len(leaves) : positions[leaves[k]].y = positions[leaves[1]].y
          /\ \A k \in 2..Len(leaves) :
               /\ positions[leaves[k]].x[2] = 1
               /\ positions[leaves[k]].x[1] = positions[leaves[k - 1]].x[1] + Step

C7_Witness ==
    /\ Analyzed
    /\ nlevels >= 2
    /\ nleaves >= 3
    /\ settings.horizontal_separation > 0

\* C8: analyze_tree ends without an exception on a tree with a childless node
\* above the last level and places that node one step (nodeWidth +
\* horizontalSeparation) to the right of the node before it in its level; a
\* childless node that is first in its level is placed too, one step to the
\* right of the left margin, where the level's running position starts.
C8_ChildlessOneStepRight ==
    (pc = "done" /\ nlevels > 0) =>
      /\ raised = "none"
      /\ \A l \in 1..(Len(nodes) - 1) : \A k \in 1..Len(nodes[l]) :
           LET n == nodes[l][k]
               before == IF k = 1 THEN <<margin(settings), 1>>
                         ELSE positions[nodes[l][k - 1]].x
           IN  Len(heap[n].children) = 0 =>
                 /\ n \in DOMAIN positions
                 /\ positions[n].x[2] = before[2]
                 /\ positions[n].x[1] = before[1] + Step * before[2]

C8_Witness ==
    /\ Analyzed
    /\ settings.horizontal_separation > 0
    /\ \E l \in 1..(Len(nodes) - 1) :
         /\ Len(nodes[l]) >= 2
         /\ Len(heap[nodes[l][1]].children) > 0
         /\ Len(heap[nodes[l][2]].children) = 0
         /\ positions[nodes[l][1]].x[2] > 1
    /\ \E l \in 1..(Len(nodes) - 1) : Len(heap[nodes[l][1]].children) = 0

\* C9: after any sequence of load calls no node has more than len(keys) + 1
\* children, and in every level the nodes with children form a prefix in
\* which every node but the last one with children is exactly full.
C9_NeverOverFull ==
    Built =>
      \A l \in 1..Len(nodes) : \A k \in 1..Len(nodes[l]) :
        LET n == nodes[l][k]
        IN  /\ Len(heap[n].children) <= Len(heap[n].data_arr) + 1
            /\ (k > 1 /\ Len(heap[n].children) > 0) =>
                 Len(heap[nodes[l][k - 1]].children)
                   = Len(heap[nodes[l][k - 1]].data_arr) + 1

C9_Witness ==
    /\ pc = "idle" /\ append
    /\ nlevels >= 2
    /\ Len(nodes[1]) >= 2
    /\ Len(heap[nodes[1][1]].children) = 2
    /\ Len(heap[nodes[1][2]].children) = 1
    /\ Len(heap[nodes[1][2]].data_arr) = 1

\* C10: after analyze_tree on a non-empty tree the x positions of every level
\* increase strictly in level order, consecutive nodes being at least
\* nodeWidth + horizontalSeparation apart.
C10_NoOverlapInLevel ==
    Analyzed =>
      \A l \in 1..Len(nodes) : \A k \in 2..Len(nodes[l]) :
        LET a == positions[nodes[l][k - 1]].x
            b == positions[nodes[l][k]].x
        IN  /\ a[1] * b[2] < b[1] * a[2]
            /\ (a[1] + Step * a[2]) * b[2] <= b[1] * a[2]

C10_Witness ==
    /\ Analyzed
    /\ nlevels = 3
    /\ \E l \in 1..2 :
         /\ Len(nodes[l]) >= 2
         /\ positions[nodes[l][1]].x[2] > 1
    /\ settings.horizontal_separation > 0

====
